---- MODULE Spec2Model ----
(***************************************************************************)
(* dotcube (src/main.rs): a rotating lattice of coloured dots.             *)
(*                                                                         *)
(* Numbers.  Every f32 of the program is a fixed-point integer counting    *)
(* 1/Scale; an angle is an integer count of eighth turns (pi/4 rad), a    *)
(* speed a count of pi/4 rad/s and dt a count of seconds.  +, -, * and /  *)
(* are rounded to the nearest unit.  sin, cos and atan2 have unspecified   *)
(* precision in Rust's std, so each result of the polar rotation carries  *)
(* an error of up to MaxUlp units that the model chooses freely.           *)
(***************************************************************************)
EXTENDS Integers, Sequences, FiniteSets, TLC

\* ------------------------------------------------------------------ bounds
MaxGrid   == 2      \* largest grid_count of a modelled build
MaxUlp    == 1      \* largest error of one sin/cos/atan2 result, in units
MaxFrames == 3      \* frames rendered in one run
MaxDt     == 1      \* longest since_last of one frame, in seconds
MaxPieces == 4      \* most sub-ranges the parallel map is split into

\* --------------------------------------------------------------- constants
Scale       == 2400
WIDTH       == 960
HEIGHT      == 720
GRID_COUNT  == 10
CIRCLE_RADIUS == 5

None == [k |-> "none"]

\* ------------------------------------------------------------- f32 values
\* n / d rounded to the nearest integer, d # 0.
RoundDiv(n, d) ==
    IF d > 0 THEN (2 * n + d) \div (2 * d)
             ELSE (2 * (0 - n) + (0 - d)) \div (2 * (0 - d))

Fin(v) == [k |-> "fin", v |-> v]
Inf(s) == [k |-> "inf", v |-> s]
NaN    == [k |-> "nan", v |-> 0]

Sign(x) == IF x > 0 THEN 1 ELSE IF x < 0 THEN 0 - 1 ELSE 0

\* x / z on f32: a zero divisor gives an infinity or NaN, never a trap.
\* A faulty variant traps as an integer division would.
FDiv_trap(x, z) ==
    IF z = 0 THEN [k |-> "panic", v |-> 0] ELSE Fin(RoundDiv(x * Scale, z))
FDiv(x, z) ==
    IF z = 0
    THEN IF x = 0 THEN NaN ELSE Inf(Sign(x))
    ELSE Fin(RoundDiv(x * Scale, z))

\* (v + 1.0) / 2.0 * extent - extent / 2.0 on an f32 that may be inf or NaN.
ScreenMap(f, extent) ==
    IF f.k = "fin"
    THEN Fin(RoundDiv(f.v + Scale, 2) * extent - RoundDiv(extent * Scale, 2))
    ELSE f

\* cos and sin of k eighth turns, in units.
Cos8 == RoundDiv(Scale * 70711, 100000)
Cos(k) ==
    CASE k % 8 = 0 -> Scale
      [] k % 8 \in {1, 7} -> Cos8
      [] k % 8 \in {2, 6} -> 0
      [] k % 8 \in {3, 5} -> 0 - Cos8
      [] k % 8 = 4 -> 0 - Scale
Sin(k) == Cos(k - 2)

Err == (0 - MaxUlp) .. MaxUlp

\* ------------------------------------------------------------ grid constants
\* 0.5 / N; a faulty variant spreads the grid over 1.0.
GRID_PAD_unit(N) == RoundDiv(Scale, N)
GRID_PAD(N)  == RoundDiv(Scale, 2 * N)
GRID_SIZE(N) == (N - 1) * GRID_PAD(N)

\* ----------------------------------------------------------- generate_colors
srgba(r, g, b, a) == [red |-> r, green |-> g, blue |-> b, alpha |-> a]

\* r as f32 / 255.0
Chan(r) == RoundDiv(r * Scale, 255)

\* (i * 255) / grid_count on usize; a faulty variant rounds to nearest.
channel_round(i, grid_count) == (i * 255 + grid_count \div 2) \div grid_count
channel(i, grid_count) == (i * 255) \div grid_count

color_of(ix, iy, iz, grid_count) ==
    srgba(Chan(channel(ix, grid_count)), Chan(channel(iy, grid_count)),
          Chan(channel(iz, grid_count)), Scale)

\* The three nested loops, each as the colours it pushes from its index on.
RECURSIVE loop_iz(_, _, _, _)
loop_iz(grid_count, ix, iy, iz) ==
    IF iz >= grid_count THEN <<>>
    ELSE <<color_of(ix, iy, iz, grid_count)>> \o loop_iz(grid_count, ix, iy, iz + 1)

RECURSIVE loop_iy(_, _, _)
loop_iy(grid_count, ix, iy) ==
    IF iy >= grid_count THEN <<>>
    ELSE loop_iz(grid_count, ix, iy, 0) \o loop_iy(grid_count, ix, iy + 1)

RECURSIVE loop_ix(_, _)
loop_ix(grid_count, ix) ==
    IF ix >= grid_count THEN <<>>
    ELSE loop_iy(grid_count, ix, 0) \o loop_ix(grid_count, ix + 1)

\* A faulty loop nest: iy varies fastest.
RECURSIVE loop_iy_inner(_, _, _, _)
loop_iy_inner(grid_count, ix, iy, iz) ==
    IF iy >= grid_count THEN <<>>
    ELSE <<color_of(ix, iy, iz, grid_count)>>
         \o loop_iy_inner(grid_count, ix, iy + 1, iz)

RECURSIVE loop_iz_outer(_, _, _)
loop_iz_outer(grid_count, ix, iz) ==
    IF iz >= grid_count THEN <<>>
    ELSE loop_iy_inner(grid_count, ix, 0, iz) \o loop_iz_outer(grid_count, ix, iz + 1)

RECURSIVE loop_ix_swapped(_, _)
loop_ix_swapped(grid_count, ix) ==
    IF ix >= grid_count THEN <<>>
    ELSE loop_iz_outer(grid_count, ix, 0) \o loop_ix_swapped(grid_count, ix + 1)

generate_colors_swapped(grid_count) == loop_ix_swapped(grid_count, 0)

generate_colors(grid_count) == loop_ix(grid_count, 0)

\* ------------------------------------------------------------ per-point map
color_idx(ix, iy, iz, N) == ix * N * N + iy * N + iz

\* let x = ..; let y = ..; let z = ..  (main.rs 126-128)
local_position(vd, ix, iy, iz, N) ==
    [x |-> ix * GRID_PAD(N) - RoundDiv(GRID_SIZE(N), 2),
     y |-> iy * GRID_PAD(N) - RoundDiv(GRID_SIZE(N), 2),
     z |-> vd.z_start + iz * GRID_PAD(N)]

center_z(z_start, N) == z_start + RoundDiv(GRID_SIZE(N), 2)

\* (cos(atan2(d2, d1) + angle) * m, sin(atan2(d2, d1) + angle) * m) with
\* m = sqrt(d1*d1 + d2*d2): the vector (d1, d2) turned by angle, each
\* component off by the error of the transcendental calls.  At the centre
\* atan2(0, 0) = 0 and m = 0, and both products are exactly 0.
\* A faulty variant takes the cosine for both components.
polar_cos_twice(d1, d2, angle, e) ==
    IF d1 = 0 /\ d2 = 0 THEN <<0, 0>>
    ELSE <<RoundDiv(d1 * Cos(angle) - d2 * Sin(angle), Scale) + e[1],
           RoundDiv(d1 * Cos(angle) - d2 * Sin(angle), Scale) + e[2]>>
polar(d1, d2, angle, e) ==
    IF d1 = 0 /\ d2 = 0 THEN <<0, 0>>
    ELSE <<RoundDiv(d1 * Cos(angle) - d2 * Sin(angle), Scale) + e[1],
           RoundDiv(d1 * Sin(angle) + d2 * Cos(angle), Scale) + e[2]>>

\* X-axis rotation (main.rs 129-140), cy = 0.
rotate_x(p, cz, angle_x, e) ==
    LET r == polar(p.y - 0, p.z - cz, angle_x, e)
    IN  [x |-> p.x, y |-> r[1] + 0, z |-> r[2] + cz]

\* Y-axis rotation (main.rs 142-153), cx = 0.
rotate_y(p, cz, angle_y, e) ==
    LET r == polar(p.x - 0, p.z - cz, angle_y, e)
    IN  [x |-> r[1] + 0, y |-> p.y, z |-> r[2] + cz]

\* let x = x / z; let y = y / z;  (main.rs 155-156)
project(p) == [x |-> FDiv(p.x, p.z), y |-> FDiv(p.y, p.z), z |-> p.z]

Panic == [k |-> "panic"]

\* The closure of the innermost map: (x, y, z, color) of one lattice point,
\* or Panic when colors[color_idx] is out of bounds or a step traps.
\* cz is captured from the enclosing frame; e holds the four errors of the
\* two polar rotations.
point(vd, cz, ix, iy, iz, N, e) ==
    LET p0 == local_position(vd, ix, iy, iz, N)
        p1 == rotate_x(p0, cz, vd.angle_x, <<e[1], e[2]>>)
        p2 == rotate_y(p1, cz, vd.angle_y, <<e[3], e[4]>>)
        pr == project(p2)
        idx == color_idx(ix, iy, iz, N)
    IN  IF idx + 1 \notin DOMAIN vd.colors THEN Panic
        ELSE IF pr.x.k = "panic" \/ pr.y.k = "panic" THEN Panic
        ELSE [k |-> "pt", x |-> pr.x, y |-> pr.y, z |-> pr.z,
              color |-> vd.colors[idx + 1]]

\* ------------------------------------------------------------------ state
VARIABLES
    grid_count,     \* GRID_COUNT of this build
    libm,           \* error of this platform's sin/cos/atan2, in units
    angle_x, angle_y, z_start, rot_speed_x, rot_speed_y,   \* Model
    ui,             \* Model.ui: the slider input egui holds for its next frame
    pc,             \* "idle" | "map" | "draw" | "panicked"
    view_data,      \* the ViewData of the frame being rendered
    cz,             \* the rotation centre of the frame being rendered
    results,        \* row -> the points a worker returned for it
    reordered,      \* some row of this frame finished before a lower one
    coordinates,    \* the collected Vec
    draws,          \* the ellipse commands handed over in the last frame
    frames,         \* frames rendered so far
    gen_runs,       \* calls of generate_colors so far
    sum_x, sum_y,   \* sum of speed * dt over the updates so far
    steady,         \* every update so far ran with rot_speed_x = pi/2, dt = 1
    gen,            \* colour-table run: the call and what it returned
    pt              \* single-point run: the input and each stage's value

model_vars == <<angle_x, angle_y, z_start, rot_speed_x, rot_speed_y>>
frame_vars == <<pc, view_data, cz, results, reordered, coordinates, draws>>
ghost_vars == <<frames, gen_runs, sum_x, sum_y, steady>>
vars == <<grid_count, libm, angle_x, angle_y, z_start, rot_speed_x,
          rot_speed_y, ui, pc, view_data, cz, results, reordered,
          coordinates, draws, frames, gen_runs, sum_x, sum_y, steady,
          gen, pt>>

\* Units of the angular quantities: 2*pi is eight eighth turns.
TwoPi == 2 * 4
Z_START_0     == RoundDiv(4 * Scale, 10)      \* 0.4
ROT_SPEED_0   == 8 \div 8                     \* 0.25 * PI

Grids == 1 .. MaxGrid
Dts   == {0, MaxDt}

\* What a drag on a slider can ask for: positions inside and beyond its ends.
UiInputs ==
    {[slider |-> "z", value |-> 0 - 1],
     [slider |-> "x", value |-> TwoPi \div 4],
     [slider |-> "y", value |-> TwoPi + 1]}

\* fn model: the Model after construction.
ModelInit ==
    /\ angle_x = 0
    /\ angle_y = 0
    /\ z_start = Z_START_0
    /\ rot_speed_x = ROT_SPEED_0
    /\ rot_speed_y = ROT_SPEED_0
    /\ ui = None

FrameInit ==
    /\ pc = "idle"
    /\ view_data = None
    /\ cz = 0
    /\ results = <<>>
    /\ reordered = FALSE
    /\ coordinates = <<>>
    /\ draws = <<>>

GhostInit ==
    /\ frames = 0
    /\ gen_runs = 0
    /\ sum_x = 0
    /\ sum_y = 0
    /\ steady = TRUE

Init ==
    /\ grid_count \in Grids
    /\ libm \in {0 - MaxUlp, 0, MaxUlp}
    /\ ModelInit
    /\ FrameInit
    /\ GhostInit
    /\ gen = None
    /\ pt = None

\* ---------------------------------------------------------------- handlers
\* raw_ui_event: egui records the event; the Model's numbers are untouched.
raw_ui_event ==
    /\ pc = "idle"
    /\ frames < MaxFrames
    /\ \E ev \in UiInputs : ui' = ev
    /\ UNCHANGED <<grid_count, libm, model_vars, frame_vars, ghost_vars, gen, pt>>

\* egui::Slider::new(&mut value, lo..=hi): the slider writes the dragged
\* position clamped into its range.
slider_unclamped(old, ev, name, lo, hi) ==
    IF ev # None /\ ev.slider = name THEN ev.value ELSE old
slider(old, ev, name, lo, hi) ==
    IF ev # None /\ ev.slider = name
    THEN IF ev.value < lo THEN lo ELSE IF ev.value > hi THEN hi ELSE ev.value
    ELSE old

\* angle += speed * dt on f32: no wrap, no clamp.
integrate_wrapped(angle, speed, dt) == (angle + speed * dt) % TwoPi
integrate(angle, speed, dt) == angle + speed * dt

\* fn update: update_ui, then both angles advance.
update ==
    /\ pc = "idle"
    /\ frames < MaxFrames
    /\ \E dt \in Dts :
        LET z  == slider(z_start, ui, "z", 0, Scale)
            sx == slider(rot_speed_x, ui, "x", 0 - TwoPi, TwoPi)
            sy == slider(rot_speed_y, ui, "y", 0 - TwoPi, TwoPi)
        IN  /\ z_start' = z
            /\ rot_speed_x' = sx
            /\ rot_speed_y' = sy
            /\ ui' = None
            /\ angle_x' = integrate(angle_x, sx, dt)
            /\ angle_y' = integrate(angle_y, sy, dt)
            /\ sum_x' = sum_x + sx * dt
            /\ sum_y' = sum_y + sy * dt
            /\ steady' = (steady /\ sx = 2 /\ dt = 1)
    /\ pc' = "view"
    /\ UNCHANGED <<grid_count, libm, view_data, cz, results, reordered,
                   coordinates, draws, frames, gen_runs, gen, pt>>

\* The nested parallel iterators walk the lattice with ix outermost and iz
\* innermost: the point at place k (from 0) of that walk.
IxOf(k, N) == k \div (N * N)
IyOf(k, N) == (k \div N) % N
IzOf(k, N) == k % N

Cube(n) == n * n * n

\* The splitter cuts the walk into contiguous sub-ranges, at most MaxPieces
\* of them, and hands each to a worker.  Piece p covers the places
\* piece_lo(p, N) .. piece_hi(p, N).
Pieces(N) == 1 .. (IF Cube(N) < MaxPieces THEN Cube(N) ELSE MaxPieces)
piece_lo(p, N) == ((p - 1) * Cube(N)) \div Cardinality(Pieces(N))
piece_hi(p, N) == (p * Cube(N)) \div Cardinality(Pieces(N)) - 1

\* ViewData { angle_x, angle_y, z_start, colors } copied from the Model.
\* A faulty copy takes angle_y for both angles.
ViewData_mixed(ax, ay, z, colors) ==
    [angle_x |-> ay, angle_y |-> ay, z_start |-> z, colors |-> colors]
ViewData(ax, ay, z, colors) ==
    [angle_x |-> ax, angle_y |-> ay, z_start |-> z, colors |-> colors]

\* view, up to the parallel map: the frame's centre and its ViewData.
view_begin ==
    /\ pc = "view"
    /\ cz' = center_z(z_start, grid_count)
    /\ view_data' = ViewData(angle_x, angle_y, z_start,
                             generate_colors(grid_count))
    /\ gen_runs' = gen_runs + 1
    /\ results' = <<>>
    /\ reordered' = FALSE
    /\ coordinates' = <<>>
    /\ draws' = <<>>
    /\ pc' = "map"
    /\ UNCHANGED <<grid_count, libm, model_vars, ui, frames, sum_x, sum_y,
                   steady, gen, pt>>

\* The points of piece p, in the order of the walk.
piece_points(p, vd, c, N, e) ==
    [j \in 1 .. (piece_hi(p, N) - piece_lo(p, N) + 1) |->
        point(vd, c, IxOf(piece_lo(p, N) + j - 1, N),
              IyOf(piece_lo(p, N) + j - 1, N),
              IzOf(piece_lo(p, N) + j - 1, N), N, <<e, e, e, e>>)]

\* Where collect puts the piece a worker returns: at the place of its
\* sub-range.  A faulty gather files pieces in order of arrival.
slot_arrival(p, done) == Cardinality(done) + 1
slot(p, done) == p

\* One worker runs the closures of one piece and returns its points.
worker(p) ==
    /\ pc = "map"
    /\ p \notin DOMAIN results
    /\ LET piece == piece_points(p, view_data, cz, grid_count, libm)
       IN  IF \E k \in DOMAIN piece : piece[k] = Panic
           THEN /\ pc' = "panicked"
                /\ UNCHANGED <<results, reordered>>
           ELSE /\ pc' = pc
                /\ results' = [s \in DOMAIN results \cup {slot(p, DOMAIN results)} |->
                                 IF s = slot(p, DOMAIN results) THEN piece
                                 ELSE results[s]]
                /\ reordered' = (reordered \/ \E u \in 1 .. (p - 1) :
                                                 u \notin DOMAIN results)
    /\ UNCHANGED <<grid_count, libm, model_vars, ui, view_data, cz,
                   coordinates, draws, ghost_vars, gen, pt>>

RECURSIVE flatten(_, _, _)
flatten(res, p, last) ==
    IF p > last THEN <<>> ELSE res[p] \o flatten(res, p + 1, last)

\* .collect(): once every sub-range has returned, one Vec of all pieces.
collect ==
    /\ pc = "map"
    /\ DOMAIN results = Pieces(grid_count)
    /\ coordinates' = flatten(results, 1, Cardinality(Pieces(grid_count)))
    /\ pc' = "draw"
    /\ UNCHANGED <<grid_count, libm, model_vars, ui, view_data, cz, results,
                   reordered, draws, ghost_vars, gen, pt>>

ellipse(c) ==
    [x |-> ScreenMap(c.x, WIDTH), y |-> ScreenMap(c.y, HEIGHT),
     radius |-> CIRCLE_RADIUS * Scale, color |-> c.color]

\* The draw loop and draw.to_frame.
draw_frame ==
    /\ pc = "draw"
    /\ draws' = [k \in DOMAIN coordinates |-> ellipse(coordinates[k])]
    /\ frames' = frames + 1
    /\ pc' = "idle"
    /\ UNCHANGED <<grid_count, libm, model_vars, ui, view_data, cz, results,
                   reordered, coordinates, gen_runs, sum_x, sum_y, steady,
                   gen, pt>>

Next ==
    \/ raw_ui_event
    \/ update
    \/ view_begin
    \/ \E p \in Pieces(grid_count) : worker(p)
    \/ collect
    \/ draw_frame

Spec == Init /\ [][Next]_vars

\* ------------------------------------------------- the colour table alone
\* generate_colors called with grid_count = n, then one lookup at the index
\* the closure computes for a lattice point of that grid.
ColorGrids == (0 .. MaxGrid) \cup {GRID_COUNT}

InitColors ==
    /\ grid_count = 1
    /\ libm = 0
    /\ ModelInit
    /\ FrameInit
    /\ GhostInit
    /\ \E n \in ColorGrids :
          gen = [pc |-> "call", n |-> n, colors |-> <<>>, at |-> <<>>,
                 got |-> None]
    /\ pt = None

gen_call ==
    /\ gen # None
    /\ gen.pc = "call"
    /\ gen' = [gen EXCEPT !.pc = "ret", !.colors = generate_colors(gen.n)]
    /\ UNCHANGED <<grid_count, libm, model_vars, ui, frame_vars, ghost_vars, pt>>

gen_lookup ==
    /\ gen # None
    /\ gen.pc = "ret"
    /\ \E ix, iy, iz \in 0 .. (gen.n - 1) :
          LET idx == color_idx(ix, iy, iz, gen.n)
          IN  gen' = [gen EXCEPT !.pc = "got", !.at = <<ix, iy, iz>>,
                          !.got = IF idx + 1 \in DOMAIN gen.colors
                                  THEN gen.colors[idx + 1] ELSE Panic]
    /\ UNCHANGED <<grid_count, libm, model_vars, ui, frame_vars, ghost_vars, pt>>

NextColors == gen_call \/ gen_lookup

SpecColors == InitColors /\ [][NextColors]_vars

\* ------------------------------------------------ one lattice point alone
\* The closure's stages for one point of one frame, every error of the
\* transcendental calls free.
PointAngles == {0, 3, TwoPi}
PointZs     == {0, Z_START_0, Scale \div 2}

InitPoint ==
    /\ grid_count = 1
    /\ libm = 0
    /\ ModelInit
    /\ FrameInit
    /\ GhostInit
    /\ gen = None
    /\ \E n \in Grids, z \in PointZs, ax \in PointAngles, ay \in PointAngles :
        \E ix, iy, iz \in 0 .. (n - 1) :
          pt = [pc |-> "in", n |-> n, z_start |-> z, angle_x |-> ax,
                angle_y |-> ay, ix |-> ix, iy |-> iy, iz |-> iz]

point_stages ==
    /\ pt # None
    /\ pt.pc = "in"
    /\ \E e1, e2, e3, e4 \in Err :
          LET c  == center_z(pt.z_start, pt.n)
              p0 == local_position(pt, pt.ix, pt.iy, pt.iz, pt.n)
              p1 == rotate_x(p0, c, pt.angle_x, <<e1, e2>>)
              p2 == rotate_y(p1, c, pt.angle_y, <<e3, e4>>)
          IN  pt' = [pc |-> "out", n |-> pt.n, z_start |-> pt.z_start,
                     angle_x |-> pt.angle_x, angle_y |-> pt.angle_y,
                     ix |-> pt.ix, iy |-> pt.iy, iz |-> pt.iz,
                     local |-> p0, after_x |-> p1, after_y |-> p2,
                     proj |-> project(p2)]
    /\ UNCHANGED <<grid_count, libm, model_vars, ui, frame_vars, ghost_vars, gen>>

NextPoint == point_stages

SpecPoint == InitPoint /\ [][NextPoint]_vars

\* ================================================================= claims
Abs(x) == IF x < 0 THEN 0 - x ELSE x

\* floor(i * 255 / N), stated by its bounds: the one r among the integers
\* next to the quotient with r * N <= i * 255 < (r + 1) * N.
TruncChannel(i, N) ==
    CHOOSE r \in (RoundDiv(i * 255, N) - 1) .. (RoundDiv(i * 255, N) + 1) :
        r * N <= i * 255 /\ i * 255 < (r + 1) * N

TruncColor(ix, iy, iz, N) ==
    srgba(Chan(TruncChannel(ix, N)), Chan(TruncChannel(iy, N)),
          Chan(TruncChannel(iz, N)), Scale)

\* C1: generate_colors(N) returns exactly N^3 colours (none for N = 0), the
\* entry at index ix*N^2 + iy*N + iz is the colour of lattice point
\* (ix, iy, iz), and a lookup at the closure's index is inside the table and
\* gets that point's colour.
Thm_C1 ==
    gen.pc # "call" =>
        /\ Len(gen.colors) = Cube(gen.n)
        /\ gen.pc = "ret" =>
              \A k \in 1 .. Len(gen.colors) :
                  gen.colors[k] = TruncColor(IxOf(k - 1, gen.n), IyOf(k - 1, gen.n),
                                             IzOf(k - 1, gen.n), gen.n)
        /\ gen.pc = "got" =>
              /\ gen.got # Panic
              /\ gen.got = TruncColor(gen.at[1], gen.at[2], gen.at[3], gen.n)

Wit_C1 ==
    /\ gen.pc = "got"
    /\ gen.n = GRID_COUNT
    /\ gen.at = <<GRID_COUNT - 1, GRID_COUNT - 1, GRID_COUNT - 1>>
    /\ gen.got = srgba(Chan(229), Chan(229), Chan(229), Scale)

\* C2: the colour of lattice point (ix, iy, iz) is (ix*255 div N, iy*255 div N,
\* iz*255 div N), truncated, opaque, in every frame whatever the angles and
\* z_start are; for N = 10 point (3, 7, 2) has r = 76, g = 178, b = 51.
Thm_C2 ==
    /\ \A k \in DOMAIN coordinates :
          coordinates[k].color =
              TruncColor(IxOf(k - 1, grid_count), IyOf(k - 1, grid_count),
                         IzOf(k - 1, grid_count), grid_count)
    /\ \A k \in DOMAIN draws :
          draws[k].color =
              TruncColor(IxOf(k - 1, grid_count), IyOf(k - 1, grid_count),
                         IzOf(k - 1, grid_count), grid_count)
    /\ color_of(3, 7, 2, GRID_COUNT) = srgba(Chan(76), Chan(178), Chan(51), Scale)

Wit_C2 ==
    /\ pc = "idle"
    /\ frames >= 2
    /\ grid_count > 1
    /\ Len(draws) = Cube(grid_count)
    /\ view_data.angle_x # 0
    /\ view_data.angle_y # view_data.angle_x
    /\ view_data.z_start # Z_START_0

\* The point the closure returns for flattened index k under the frame's
\* ViewData and centre.
ExpectedPoint(k) ==
    point(view_data, cz, IxOf(k, grid_count), IyOf(k, grid_count),
          IzOf(k, grid_count), grid_count, <<libm, libm, libm, libm>>)

\* C3: every frame hands over exactly one draw command per lattice point, in
\* flattened-index order, whatever order the workers finish their sub-ranges
\* in; the collected Vec is in that order before the draw loop runs.
Thm_C3 ==
    /\ pc = "draw" =>
          /\ Len(coordinates) = Cube(grid_count)
          /\ \A k \in DOMAIN coordinates :
                /\ coordinates[k] = ExpectedPoint(k - 1)
                /\ coordinates[k].color = view_data.colors[k]
    /\ (pc = "idle" /\ frames > 0) =>
          /\ Len(draws) = Cube(grid_count)
          /\ \A k \in DOMAIN draws :
                /\ draws[k] = ellipse(ExpectedPoint(k - 1))
                /\ draws[k].color = view_data.colors[k]

Wit_C3 ==
    /\ pc = "idle"
    /\ frames > 0
    /\ reordered
    /\ grid_count > 1
    /\ Len(draws) = Cube(grid_count)

\* Updates run so far: one per finished frame, and the one of the frame
\* being rendered.
Updates == frames + (IF pc \in {"view", "map", "draw"} THEN 1 ELSE 0)
ThreeHalfPi == (3 * TwoPi) \div 4
HalfPi == TwoPi \div 4

AngleIsSum ==
    /\ angle_x = sum_x
    /\ angle_y = sum_y
    /\ (steady /\ Updates = 3) => angle_x = ThreeHalfPi

AngleMonotone ==
    /\ rot_speed_x' > 0 => angle_x' >= angle_x
    /\ rot_speed_y' > 0 => angle_y' >= angle_y

\* C4: from angle_x = angle_y = 0 each angle is the sum of speed * dt over
\* the frames so far, neither wrapped nor clamped; under a positive speed it
\* never decreases; three frames of dt = 1 s at pi/2 rad/s give 3*pi/2.
Thm_C4 == []AngleIsSum /\ [][AngleMonotone]_vars

Wit_C4 ==
    /\ steady
    /\ frames = 3
    /\ rot_speed_x = HalfPi
    /\ angle_x = ThreeHalfPi

\* C5: the colour table is made once at startup and the generator is not
\* run again in any later frame.
Cex_C5 == gen_runs <= 1

\* x' = -0.25 and the local position of the C6 scenario, in units.
Scen6 ==
    /\ pt.pc = "out"
    /\ pt.n = 2
    /\ pt.z_start = Scale \div 2
    /\ pt.angle_x = 0
    /\ pt.angle_y = 0
    /\ pt.ix = 0 /\ pt.iy = 0 /\ pt.iz = 0

\* local position = (ix*pad - size/2, iy*pad - size/2, z_start + iz*pad) with
\* pad = 0.5/N and size = (N-1)*pad; projection = (x/z, y/z) of the rotated
\* point, a rounded quotient where z # 0.
Quotient(f, x, z) ==
    z # 0 => (f.k = "fin" /\ 2 * Abs(f.v * z - x * Scale) <= Abs(z))
General6 ==
    pt.pc = "out" =>
        \E pad \in 0 .. Scale :
            /\ 2 * pt.n * pad = Scale
            /\ 2 * pt.local.x = 2 * pt.ix * pad - (pt.n - 1) * pad
            /\ 2 * pt.local.y = 2 * pt.iy * pad - (pt.n - 1) * pad
            /\ pt.local.z = pt.z_start + pt.iz * pad
            /\ Quotient(pt.proj.x, pt.after_y.x, pt.after_y.z)
            /\ Quotient(pt.proj.y, pt.after_y.y, pt.after_y.z)

Local6 ==
    /\ Len(generate_colors(pt.n)) = 8
    /\ pt.local = [x |-> 0 - Scale \div 8, y |-> 0 - Scale \div 8,
                   z |-> Scale \div 2]

\* C6 as stated: in the scenario the projection is exactly (-0.25, -0.25).
Cex_C6 ==
    /\ General6
    /\ Scen6 =>
          /\ Local6
          /\ pt.proj.x = Fin(0 - Scale \div 4)
          /\ pt.proj.y = Fin(0 - Scale \div 4)

TolProj == 4 * MaxUlp

\* C6, amended: with grid_count = 2, z_start = 0.5 and both angles 0, point
\* (0,0,0) has local position exactly (-0.125, -0.125, 0.5) and projects to
\* (-0.25, -0.25) within floating tolerance, the rotation by angle 0 not
\* being an exact no-op; the general formulas hold.
Thm_C6 ==
    /\ General6
    /\ Scen6 =>
          /\ Local6
          /\ pt.proj.x.k = "fin" /\ pt.proj.y.k = "fin"
          /\ Abs(pt.proj.x.v + Scale \div 4) <= TolProj
          /\ Abs(pt.proj.y.v + Scale \div 4) <= TolProj

Wit_C6 ==
    /\ Scen6
    /\ pt.proj.x.v # 0 - Scale \div 4

\* C7: no frame aborts; a point whose rotated depth is exactly 0 gets an
\* infinite or NaN coordinate, every other point a finite one, and the frame
\* still ends with one draw command per lattice point.
Thm_C7 ==
    /\ pc # "panicked"
    /\ \A k \in DOMAIN coordinates :
          IF coordinates[k].z = 0
          THEN coordinates[k].x.k \in {"inf", "nan"}
               /\ coordinates[k].y.k \in {"inf", "nan"}
          ELSE coordinates[k].x.k = "fin" /\ coordinates[k].y.k = "fin"
    /\ (pc = "idle" /\ frames > 0) =>
          /\ Len(draws) = Cube(grid_count)
          /\ \A k \in DOMAIN draws :
                /\ draws[k].x.k = coordinates[k].x.k
                /\ draws[k].y.k = coordinates[k].y.k

Wit_C7 ==
    /\ pc = "idle"
    /\ frames > 0
    /\ grid_count > 1
    /\ Len(draws) = Cube(grid_count)
    /\ \E k \in DOMAIN coordinates :
          coordinates[k].z = 0 /\ draws[k].x.k = "inf"
    /\ \E k \in DOMAIN coordinates : draws[k].x.k = "fin"

\* C8: z_start stays in [0, 1] and both speeds in [-2*pi, 2*pi].
Thm_C8 ==
    /\ 0 <= z_start /\ z_start <= Scale
    /\ 0 - TwoPi <= rot_speed_x /\ rot_speed_x <= TwoPi
    /\ 0 - TwoPi <= rot_speed_y /\ rot_speed_y <= TwoPi

Wit_C8 ==
    /\ frames = 3
    /\ z_start = 0
    /\ rot_speed_x = HalfPi
    /\ rot_speed_y = TwoPi

Scen9 ==
    /\ pt.pc = "out"
    /\ \/ pt.angle_x = TwoPi /\ pt.angle_y = 0
       \/ pt.angle_x = 0 /\ pt.angle_y = TwoPi

Untouched9 ==
    pt.pc = "out" =>
        /\ pt.after_x.x = pt.local.x
        /\ pt.after_y.y = pt.after_x.y

\* C9 as stated: a turn of 2*pi about either axis returns each point to its
\* local position.
Cex_C9 ==
    /\ Untouched9
    /\ Scen9 => pt.after_y = pt.local

TolRot == 2 * MaxUlp

\* C9, amended: a turn of 2*pi about either axis returns each point's
\* (x, y, z) to its local position within floating tolerance; the X-axis
\* step leaves x untouched and the Y-axis step leaves y untouched, exactly.
Thm_C9 ==
    /\ Untouched9
    /\ Scen9 =>
          /\ Abs(pt.after_y.x - pt.local.x) <= TolRot
          /\ Abs(pt.after_y.y - pt.local.y) <= TolRot
          /\ Abs(pt.after_y.z - pt.local.z) <= TolRot

Wit_C9 ==
    /\ Scen9
    /\ pt.n > 1
    /\ pt.angle_x = TwoPi
    /\ pt.after_y # pt.local

\* The frame being rendered works on a copy of the Model's numbers, and every
\* piece returned so far was computed from that one copy and one centre.
OneSnapshot ==
    pc \in {"map", "draw"} =>
        /\ view_data.angle_x = angle_x
        /\ view_data.angle_y = angle_y
        /\ view_data.z_start = z_start
        /\ cz = center_z(z_start, grid_count)
        /\ \A p \in DOMAIN results :
              results[p] = piece_points(p, ViewData(angle_x, angle_y, z_start,
                                                    view_data.colors),
                                        center_z(z_start, grid_count),
                                        grid_count, libm)

OnlyUpdateWrites ==
    model_vars' # model_vars => (pc = "idle" /\ pc' = "view")

\* C10: the Model's angles, z_start and speeds change only in the update
\* step; the render pass and the raw-event handler leave them alone, and all
\* points of a frame are transformed with one copy of them.
Thm_C10 == []OneSnapshot /\ [][OnlyUpdateWrites]_vars

Wit_C10 ==
    /\ pc = "map"
    /\ frames >= 1
    /\ Cardinality(DOMAIN results) >= 2
    /\ z_start # Z_START_0
    /\ angle_x # angle_y

====
